---------------------------- MODULE Spec2Model ----------------------------
(***************************************************************************)
(* Model of convert_to_md.py: the conversion of pipermail HTML archive     *)
(* pages to Markdown.                                                      *)
(*                                                                         *)
(* A text is a sequence of tokens.  A token is a fixed piece of text that  *)
(* the program's patterns treat as a unit (a marker, a tag, an entity      *)
(* name, a boilerplate keyword, a whitespace character, ...).  Characters  *)
(* outside ASCII are written by their code point: "U+0151" is the letter   *)
(* o with double acute, "U+00F5" the letter o with tilde, "U+2013" the en  *)
(* dash.  An entity is two tokens, the ampersand and the rest, so that     *)
(* "&amp;otilde;" is <<"&", "amp;", "otilde;">>.                           *)
(***************************************************************************)
EXTENDS Naturals, Sequences, FiniteSets

VARIABLES
    pc,         \* position of the program / of the call under study
    arg,        \* the argument of the function under study (a text)
    parts,      \* the pieces arg was assembled from (anchor studies)
    ret,        \* what the function under study returned
    repo,       \* the input tree under REPO_DIR: entry name -> entry
    outTree,    \* the files under REPO_DIR/markdown: <<dir, name>> -> text
    outDirs,    \* the directories that exist under REPO_DIR/markdown
    queue,      \* batch run: the sorted month directories still to visit
    files,      \* batch run: the sorted html files still to visit here
    curDir,     \* batch run: the month directory being processed
    total,      \* main's counter of visited files
    converted,  \* main's counter of converted files
    stdout,     \* the lines main printed on standard output
    writes,     \* the writes of output files this run completed
    fault,      \* the I/O error the file system raised in this run, if any
    single,     \* what the last --single invocation read and printed
    run,        \* how many batch runs over the input tree were started
    firstOut    \* the output tree as the first run left it

vars == <<pc, arg, parts, ret, repo, outTree, outDirs, queue, files, curDir,
          total, converted, stdout, writes, fault, single, run, firstOut>>

(***************************************************************************)
(* Tokens                                                                  *)
(***************************************************************************)
BEGIN_ARTICLE == "<!--beginarticle-->"
END_ARTICLE   == "<!--endarticle-->"
PRE_OPEN      == "<PRE>"
PRE_CLOSE     == "</PRE>"
A_OPEN        == "<A HREF="
A_CLOSE       == "</A>"
DQ            == "\""
GT            == ">"
NL            == "\n"
SP            == " "
AMP           == "&"
LE_ACUTE      == "{I-acute}rjatok le:"
LE_PLAIN      == "Irjatok le:"
FEL_ACUTE     == "{I-acute}rjatok fel:"
FEL_PLAIN     == "Irjatok fel:"

\* the characters Python's \s and str.strip() treat as whitespace
IsSpace(t) == t \in {SP, NL, "U+00A0"}

\* the tokens whose text holds the character '>' (each ends with it)
GTTokens == {GT, A_CLOSE, PRE_OPEN, PRE_CLOSE, BEGIN_ARTICLE, END_ARTICLE}

(***************************************************************************)
(* str methods                                                             *)
(***************************************************************************)
RECURSIVE LStrip(_)
LStrip(s) == IF s # <<>> /\ IsSpace(Head(s)) THEN LStrip(Tail(s)) ELSE s

RECURSIVE RStrip(_)
RStrip(s) ==
    IF s # <<>> /\ IsSpace(s[Len(s)]) THEN RStrip(SubSeq(s, 1, Len(s) - 1)) ELSE s

\* str.strip()
Strip(s) == LStrip(RStrip(s))

\* str.rstrip('/')
RECURSIVE RStripSlash(_)
RStripSlash(s) ==
    IF s # <<>> /\ s[Len(s)] = "/" THEN RStripSlash(SubSeq(s, 1, Len(s) - 1)) ELSE s

\* s.startswith(p)
StartsWith(s, p) == Len(s) >= Len(p) /\ SubSeq(s, 1, Len(p)) = p

\* p in s
Contains(s, p) == \E i \in 1..(Len(s) + 1 - Len(p)) : SubSeq(s, i, i + Len(p) - 1) = p

\* s.replace(p, r): every occurrence of p, left to right, not overlapping
RECURSIVE Replace(_, _, _)
Replace(s, p, r) ==
    IF s = <<>> THEN <<>>
    ELSE IF StartsWith(s, p) THEN r \o Replace(SubSeq(s, Len(p) + 1, Len(s)), p, r)
    ELSE <<Head(s)>> \o Replace(Tail(s), p, r)

\* the first index >= i whose token is in T, or Len(s) + 1
FirstIn(s, i, T) ==
    LET S == {k \in i..Len(s) : s[k] \in T}
    IN  IF S = {} THEN Len(s) + 1 ELSE CHOOSE k \in S : \A j \in S : k <= j

(***************************************************************************)
(* convert_links                                                           *)
(***************************************************************************)
\* the comparison form of a link text or URL (lines 49-50)
LinkNorm(s) == RStripSlash(Replace(Replace(s, <<"http://">>, <<>>), <<"https://">>, <<>>))

\* link_replacer without the strip() of line 47
LinkReplacerNoStrip(url, text) ==
    IF LinkNorm(text) = LinkNorm(url) THEN url
    ELSE IF Contains(url, <<"mailman/listinfo">>) THEN text
    ELSE <<"[">> \o text \o <<"](">> \o url \o <<")">>

LinkReplacer(url, text) ==
    LET link_text == Strip(text)
    IN  IF LinkNorm(link_text) = LinkNorm(url) THEN url
        ELSE IF Contains(url, <<"mailman/listinfo">>) THEN link_text
        ELSE <<"[">> \o link_text \o <<"](">> \o url \o <<")">>

\* One match of <A HREF="([^"]*)"[^>]*>(.*?)</A> starting at i:
\* [ok, url, text, next], next being the index after the match.
AnchorAt(s, i) ==
    IF ~(i + 1 <= Len(s) /\ s[i] = A_OPEN /\ s[i + 1] = DQ)
    THEN [ok |-> FALSE, url |-> <<>>, text |-> <<>>, next |-> i]
    ELSE LET q == FirstIn(s, i + 2, {DQ})
             g == FirstIn(s, q + 1, GTTokens)
             c == FirstIn(s, g + 1, {A_CLOSE})
         IN  IF q > Len(s) \/ g > Len(s) \/ c > Len(s)
             THEN [ok |-> FALSE, url |-> <<>>, text |-> <<>>, next |-> i]
             ELSE [ok |-> TRUE, url |-> SubSeq(s, i + 2, q - 1),
                   text |-> SubSeq(s, g + 1, c - 1), next |-> c + 1]

\* re.sub over the text from index i on
RECURSIVE ConvertLinksFrom(_, _)
ConvertLinksFrom(s, i) ==
    IF i > Len(s) THEN <<>>
    ELSE LET m == AnchorAt(s, i)
         IN  IF m.ok THEN LinkReplacer(m.url, m.text) \o ConvertLinksFrom(s, m.next)
             ELSE <<s[i]>> \o ConvertLinksFrom(s, i + 1)

ConvertLinks(s) == ConvertLinksFrom(s, 1)

(***************************************************************************)
(* strip_header                                                            *)
(***************************************************************************)
\* text.split('\n')
RECURSIVE Split(_)
Split(s) ==
    LET n == FirstIn(s, 1, {NL})
    IN  IF n > Len(s) THEN <<s>>
        ELSE <<SubSeq(s, 1, n - 1)>> \o Split(SubSeq(s, n + 1, Len(s)))

\* '\n'.join(lines)
RECURSIVE Join(_)
Join(ls) ==
    IF ls = <<>> THEN <<>>
    ELSE IF Len(ls) = 1 THEN ls[1]
    ELSE ls[1] \o <<NL>> \o Join(Tail(ls))

IsLeLine(line) ==
    StartsWith(Strip(line), <<LE_ACUTE>>) \/ StartsWith(Strip(line), <<LE_PLAIN>>)

IsFelLine(line) ==
    StartsWith(Strip(line), <<FEL_ACUTE>>) \/ StartsWith(Strip(line), <<FEL_PLAIN>>)

\* The loop of lines 66-75 from line i on; last is last_subscribe_idx, with
\* lines counted from 1 and 0 for "none" (Python: from 0, and -1).
\* the loop keeping the first "le:" line instead of the last
RECURSIVE LastSubscribeFirstLe(_, _, _)
LastSubscribeFirstLe(lines, i, last) ==
    IF i > Len(lines) THEN last
    ELSE LET l1 == IF IsLeLine(lines[i]) /\ last = 0 THEN i ELSE last
             l2 == IF IsFelLine(lines[i]) /\ l1 = 0 THEN i ELSE l1
         IN  LastSubscribeFirstLe(lines, i + 1, l2)

RECURSIVE LastSubscribeFrom(_, _, _)
LastSubscribeFrom(lines, i, last) ==
    IF i > Len(lines) THEN last
    ELSE LET l1 == IF IsLeLine(lines[i]) THEN i ELSE last
             l2 == IF IsFelLine(lines[i]) /\ l1 = 0 THEN i ELSE l1
         IN  LastSubscribeFrom(lines, i + 1, l2)

LastSubscribeIdx(lines) == LastSubscribeFrom(lines, 1, 0)

\* the test of lines 83-87
IsContinuationLine(line) ==
    LET stripped == Strip(line)
    IN  \/ stripped = <<>>
        \/ StartsWith(stripped, <<"subject=">>)
        \/ StartsWith(stripped, <<"mailto:">>)
        \/ StartsWith(stripped, <<FEL_ACUTE>>)
        \/ StartsWith(stripped, <<FEL_PLAIN>>)

\* the while loop of lines 80-90
RECURSIVE SkipContinuation(_, _)
SkipContinuation(lines, start) ==
    IF start <= Len(lines) /\ IsContinuationLine(lines[start])
    THEN SkipContinuation(lines, start + 1)
    ELSE start

ArtTokens == {",", "-", ".", "|", "'", SP, "U+00A0", "_", "/", "\\"}
SubbaTokens == {"SUBBACULTCHA", "Subbacultcha", "subbacultcha"}
RomanTokens == {"I", "V", "X"}

\* ^[IVX]+\.\s+evfolyam
IsVolumeLine(stripped) ==
    LET d == FirstIn(stripped, 1, {t \in {stripped[k] : k \in 1..Len(stripped)} :
                                      t \notin RomanTokens})
        w == FirstIn(stripped, d + 1, {t \in {stripped[k] : k \in 1..Len(stripped)} :
                                          ~IsSpace(t)})
    IN  /\ d > 1 /\ d <= Len(stripped) /\ stripped[d] = "."
        /\ w > d + 1 /\ w <= Len(stripped) /\ stripped[w] = "{e-acute}vfolyam"

\* the test of lines 100-107
IsBannerLine(line) ==
    LET stripped == Strip(line)
    IN  \/ stripped = <<>>
        \/ \A k \in 1..Len(stripped) : stripped[k] = "*"
        \/ \A k \in 1..Len(stripped) : stripped[k] = "-"
        \/ \A k \in 1..Len(stripped) : stripped[k] \in ArtTokens
        \/ \E k \in 1..Len(stripped) : stripped[k] \in SubbaTokens
        \/ Contains(stripped, <<"popkultur{a-acute}lis megmond{o-acute}">>)
        \/ Contains(stripped, <<"popkultur&#225;lis megmond">>)
        \/ IsVolumeLine(stripped)

\* the for loop of lines 96-110: the number of leading banner lines
RECURSIVE HeaderEnd(_, _)
HeaderEnd(lines, i) ==
    IF i <= Len(lines) /\ IsBannerLine(lines[i]) THEN HeaderEnd(lines, i + 1)
    ELSE i - 1

StripHeader(text) ==
    LET lines == Split(text)
        last  == LastSubscribeIdx(lines)
    IN  IF last > 0
        THEN Join(SubSeq(lines, SkipContinuation(lines, last + 1), Len(lines)))
        ELSE Join(SubSeq(lines, HeaderEnd(lines, 1) + 1, Len(lines)))

(***************************************************************************)
(* entities                                                                *)
(***************************************************************************)
\* the pieces "#<digits>;" of the model and int(m.group(1)) of each
NumericCode ==
    [t \in {"#132;", "#146;", "#148;", "#150;", "#245;", "#0245;", "#213;",
            "#251;", "#219;", "#233;", "#160;"} |->
        CASE t = "#132;" -> 132 [] t = "#146;" -> 146 [] t = "#148;" -> 148
          [] t = "#150;" -> 150 [] t = "#245;" -> 245 [] t = "#0245;" -> 245
          [] t = "#213;" -> 213 [] t = "#251;" -> 251 [] t = "#219;" -> 219
          [] t = "#233;" -> 233 [] t = "#160;" -> 160]

WIN1252_MAP ==
    [c \in {132, 146, 148, 150} |->
        CASE c = 132 -> "U+201E" [] c = 146 -> "U+2019"
          [] c = 148 -> "U+201D" [] c = 150 -> "U+2013"]

ISO2_FIXUP ==
    [c \in {245, 213, 251, 219} |->
        CASE c = 245 -> "U+0151" [] c = 213 -> "U+0150"
          [] c = 251 -> "U+0171" [] c = 219 -> "U+0170"]

SPECIAL_NUMERIC ==
    [c \in DOMAIN WIN1252_MAP \cup DOMAIN ISO2_FIXUP |->
        IF c \in DOMAIN ISO2_FIXUP THEN ISO2_FIXUP[c] ELSE WIN1252_MAP[c]]

\* re.sub(r'&#(\d+);', replacer, text)
RECURSIVE FixNumericEntities(_)
FixNumericEntities(s) ==
    IF s = <<>> THEN <<>>
    ELSE IF Len(s) >= 2 /\ s[1] = AMP /\ s[2] \in DOMAIN NumericCode
    THEN (IF NumericCode[s[2]] \in DOMAIN SPECIAL_NUMERIC
          THEN <<SPECIAL_NUMERIC[NumericCode[s[2]]]>>
          ELSE <<s[1], s[2]>>) \o FixNumericEntities(SubSeq(s, 3, Len(s)))
    ELSE <<Head(s)>> \o FixNumericEntities(Tail(s))

\* What html.unescape makes of "&" followed by each piece: the character of
\* a numeric reference (128-159 read as Windows-1252, also without the
\* semicolon) and of a named one.
CharRef ==
    [t \in DOMAIN NumericCode \cup
           {"#245", "amp;", "otilde;", "Otilde;", "ucirc;", "Ucirc;", "nbsp;", "quot;"} |->
        CASE t = "#132;" -> "U+201E" [] t = "#146;" -> "U+2019"
          [] t = "#148;" -> "U+201D" [] t = "#150;" -> "U+2013"
          [] t \in {"#245;", "#0245;", "#245", "otilde;"} -> "U+00F5"
          [] t \in {"#213;", "Otilde;"} -> "U+00D5"
          [] t \in {"#251;", "ucirc;"} -> "U+00FB"
          [] t \in {"#219;", "Ucirc;"} -> "U+00DB"
          [] t = "#233;" -> "U+00E9"
          [] t \in {"#160;", "nbsp;"} -> "U+00A0"
          [] t = "amp;" -> AMP
          [] t = "quot;" -> DQ]

\* html.unescape: one pass, what a reference makes is not read again
RECURSIVE HtmlUnescape(_)
HtmlUnescape(s) ==
    IF s = <<>> THEN <<>>
    ELSE IF Len(s) >= 2 /\ s[1] = AMP /\ s[2] \in DOMAIN CharRef
    THEN <<CharRef[s[2]]>> \o HtmlUnescape(SubSeq(s, 3, Len(s)))
    ELSE <<Head(s)>> \o HtmlUnescape(Tail(s))

\* lines 130-133
FixDoubleEncoded(s) ==
    Replace(Replace(Replace(Replace(s,
        <<AMP, "amp;", "Otilde;">>, <<"U+0150">>),
        <<AMP, "amp;", "otilde;">>, <<"U+0151">>),
        <<AMP, "amp;", "Ucirc;">>, <<"U+0170">>),
        <<AMP, "amp;", "ucirc;">>, <<"U+0171">>)

\* lines 146-149 without the capital letters
FixIso2CharsSmall(s) ==
    Replace(Replace(s, <<"U+00F5">>, <<"U+0151">>), <<"U+00FB">>, <<"U+0171">>)

\* lines 146-149
FixIso2Chars(s) ==
    Replace(Replace(Replace(Replace(s,
        <<"U+00F5">>, <<"U+0151">>),
        <<"U+00D5">>, <<"U+0150">>),
        <<"U+00FB">>, <<"U+0171">>),
        <<"U+00DB">>, <<"U+0170">>)

(***************************************************************************)
(* convert_html_to_md                                                      *)
(***************************************************************************)
\* \s* matching nothing
SkipSpaceNone(s, i) == i

\* the first index >= i whose token is not whitespace, or Len(s) + 1
SkipSpace(s, i) ==
    LET S == {k \in i..Len(s) : ~IsSpace(s[k])}
    IN  IF S = {} THEN Len(s) + 1 ELSE CHOOSE k \in S : \A j \in S : k <= j

\* </PRE> at q, whether or not the end marker follows
ClosesAtNoEnd(s, q) == q <= Len(s) /\ s[q] = PRE_CLOSE

\* </PRE>\s*<!--endarticle--> at q
ClosesAt(s, q) ==
    /\ q <= Len(s) /\ s[q] = PRE_CLOSE
    /\ SkipSpace(s, q + 1) <= Len(s) /\ s[SkipSpace(s, q + 1)] = END_ARTICLE

\* The match of <!--beginarticle-->\s*<PRE>(.*?)</PRE>\s*<!--endarticle-->
\* that starts at i: [ok, group], group being match.group(1).
ArticleAt(s, i) ==
    LET p == SkipSpace(s, i + 1)
        Q == {q \in (p + 1)..Len(s) : ClosesAt(s, q)}
    IN  IF s[i] = BEGIN_ARTICLE /\ p <= Len(s) /\ s[p] = PRE_OPEN /\ Q # {}
        THEN [ok |-> TRUE,
              group |-> SubSeq(s, p + 1, (CHOOSE q \in Q : \A r \in Q : q <= r) - 1)]
        ELSE [ok |-> FALSE, group |-> <<>>]

\* re.search: the match at the leftmost position that has one
ArticleSearch(s) ==
    LET I == {i \in 1..Len(s) : ArticleAt(s, i).ok}
    IN  IF I = {} THEN [ok |-> FALSE, group |-> <<>>]
        ELSE ArticleAt(s, CHOOSE i \in I : \A j \in I : i <= j)

\* [found |-> FALSE] is None; a found body may be the empty text
ConvertHtmlToMd(html_content) ==
    LET match == ArticleSearch(html_content)
    IN  IF ~match.ok THEN [found |-> FALSE, body |-> <<>>]
        ELSE [found |-> TRUE,
              body |-> Strip(StripHeader(FixIso2Chars(HtmlUnescape(
                          FixNumericEntities(ConvertLinks(
                              FixDoubleEncoded(match.group)))))))]

(***************************************************************************)
(* Bounds and the inputs drawn within them                                 *)
(***************************************************************************)
MaxUrlLen == 2
MaxTextLen == 3
MaxHeaderLen == 5
MaxHtmlLen == 6
MaxPageLen == 4
MaxBodyLen == 3
MaxRuns == 2

SeqsUpTo(S, n) == UNION {[1..k -> S] : k \in 0..n}

(***************************************************************************)
(* process_file                                                            *)
(***************************************************************************)
\* A name is a sequence of characters.
DigitChars == {"0", "1", "2", "3", "4", "5", "9"}
LetterChars == {"J", "M", "a", "d", "e", "h", "i", "k", "l", "m", "n", "o",
                "r", "s", "t", "w", "x", "y"}

\* Python's ord() of the characters names are made of
Ord(c) ==
    CASE c = "-" -> 45 [] c = "." -> 46
      [] c = "0" -> 48 [] c = "1" -> 49 [] c = "2" -> 50 [] c = "3" -> 51
      [] c = "4" -> 52 [] c = "5" -> 53 [] c = "9" -> 57
      [] c = "J" -> 74 [] c = "M" -> 77 [] c = "_" -> 95
      [] c = "a" -> 97 [] c = "d" -> 100 [] c = "e" -> 101 [] c = "h" -> 104
      [] c = "i" -> 105 [] c = "k" -> 107 [] c = "l" -> 108 [] c = "m" -> 109 [] c = "n" -> 110
      [] c = "o" -> 111 [] c = "r" -> 114 [] c = "s" -> 115 [] c = "t" -> 116
      [] c = "w" -> 119 [] c = "x" -> 120 [] c = "y" -> 121

HtmlExt == <<".", "h", "t", "m", "l">>
MdExt == <<".", "m", "d">>

\* os.path.splitext(os.path.basename(html_path))[0] + '.md' (lines 169-170)
MdName(html_name) ==
    LET dots == {k \in 1..Len(html_name) : html_name[k] = "." /\ k > 1}
        cut  == IF dots = {} THEN Len(html_name) + 1
                ELSE CHOOSE k \in dots : \A j \in dots : j <= k
    IN  SubSeq(html_name, 1, cut - 1) \o MdExt

\* process_file writing md_content without the newline of line 173
ProcessFileNoNewline(html_name, html_content) ==
    LET md_content == ConvertHtmlToMd(html_content)
    IN  IF ~md_content.found
        THEN [ok |-> FALSE, name |-> <<>>, data |-> <<>>]
        ELSE [ok |-> TRUE, name |-> MdName(html_name), data |-> md_content.body]

\* What process_file does to the output directory given what it read:
\* [ok, name, data], ok being its return value.
ProcessFile(html_name, html_content) ==
    LET md_content == ConvertHtmlToMd(html_content)
    IN  IF ~md_content.found
        THEN [ok |-> FALSE, name |-> <<>>, data |-> <<>>]
        ELSE [ok |-> TRUE, name |-> MdName(html_name),
              data |-> md_content.body \o <<NL>>]

(***************************************************************************)
(* main                                                                    *)
(***************************************************************************)
\* a < b for str
RECURSIVE StrLess(_, _)
StrLess(a, b) ==
    IF b = <<>> THEN FALSE
    ELSE IF a = <<>> THEN TRUE
    ELSE IF Head(a) = Head(b) THEN StrLess(Tail(a), Tail(b))
    ELSE Ord(Head(a)) < Ord(Head(b))

\* sorted(S)
RECURSIVE Sorted(_)
Sorted(S) ==
    IF S = {} THEN <<>>
    ELSE LET m == CHOOSE x \in S : \A y \in S \ {x} : StrLess(x, y)
         IN  <<m>> \o Sorted(S \ {m})

\* re.match(r'\d{4}-\w+', entry)
DirMatches(entry) ==
    /\ Len(entry) >= 6
    /\ \A k \in 1..4 : entry[k] \in DigitChars
    /\ entry[5] = "-"
    /\ entry[6] \in DigitChars \cup LetterChars \cup {"_"}

\* fnmatch of '[0-9]*.html'
FileMatches(name) ==
    /\ Len(name) >= 6
    /\ name[1] \in DigitChars
    /\ SubSeq(name, Len(name) - 4, Len(name)) = HtmlExt

MARKDOWN == <<"m", "a", "r", "k", "d", "o", "w", "n">>

\* os.listdir(REPO_DIR): the input entries and, once made, markdown/
ListDir == DOMAIN repo \cup (IF outDirs = {} THEN {} ELSE {MARKDOWN})

IsDir(entry) == IF entry = MARKDOWN THEN TRUE ELSE repo[entry].isdir

\* the names in a directory of REPO_DIR
DirNames(entry) == IF entry = MARKDOWN THEN outDirs ELSE DOMAIN repo[entry].files

\* the glob with the pattern '*.html'
HtmlFilesAny(entry) ==
    Sorted({n \in DirNames(entry) :
               Len(n) >= 5 /\ SubSeq(n, Len(n) - 4, Len(n)) = HtmlExt})

\* sorted(glob.glob(os.path.join(dir_path, '[0-9]*.html')))
HtmlFiles(entry) == Sorted({n \in DirNames(entry) : FileMatches(n)})

\* the file system's answers to one process_file call
IoOutcomes == {"ok", "read_error", "open_error", "write_error"}

NoSingle == [path |-> <<>>, out |-> <<>>, err |-> <<>>]

\* the loop going on after an exception that was caught
AfterFaultCaught == "files"

\* Where the program is once a call raised: nothing in process_file or main
\* catches the exception, so it ends the run.
AfterFault == "crashed"

\* main() without arguments, up to the loop over the entries (lines 194-199)
MainStart ==
    /\ pc \in {"start", "done"}
    /\ run < MaxRuns
    /\ run' = run + 1
    /\ firstOut' = IF run = 1 THEN outTree ELSE firstOut
    /\ total' = 0
    /\ converted' = 0
    /\ stdout' = <<>>
    /\ writes' = <<>>
    /\ fault' = "none"
    /\ queue' = Sorted(ListDir)
    /\ files' = <<>>
    /\ curDir' = <<>>
    /\ pc' = "dirs"
    /\ UNCHANGED <<arg, parts, ret, repo, outTree, outDirs, single>>

\* one entry that the loop passes over (lines 201-209)
SkipEntry ==
    /\ pc = "dirs"
    /\ queue # <<>>
    /\ \/ ~IsDir(Head(queue))
       \/ ~DirMatches(Head(queue))
       \/ HtmlFiles(Head(queue)) = <<>>
    /\ queue' = Tail(queue)
    /\ UNCHANGED <<pc, arg, parts, ret, repo, outTree, outDirs, files, curDir,
                   total, converted, stdout, writes, fault, single, run, firstOut>>

\* one month directory with html files: os.makedirs (lines 211-212)
EnterDir ==
    /\ pc = "dirs"
    /\ queue # <<>>
    /\ IsDir(Head(queue))
    /\ DirMatches(Head(queue))
    /\ HtmlFiles(Head(queue)) # <<>>
    /\ \/ /\ outDirs' = outDirs \cup {Head(queue)}
          /\ curDir' = Head(queue)
          /\ files' = HtmlFiles(Head(queue))
          /\ queue' = Tail(queue)
          /\ pc' = "files"
          /\ fault' = fault
       \/ /\ fault' = "mkdir_error"      \* os.makedirs raised
          /\ pc' = AfterFault
          /\ UNCHANGED <<outDirs, curDir, files, queue>>
    /\ UNCHANGED <<arg, parts, ret, repo, outTree, total, converted, stdout,
                   writes, single, run, firstOut>>

\* the output tree after open(md_path, 'a') and f.write(data)
WrittenAppend(dir, name, data, k) ==
    [p \in DOMAIN outTree \cup {<<dir, name>>} |->
        IF p = <<dir, name>>
        THEN (IF p \in DOMAIN outTree THEN outTree[p] ELSE <<>>) \o SubSeq(data, 1, k)
        ELSE outTree[p]]

\* the output tree after open(md_path, 'w') and f.write(data) got as far as
\* the first k tokens
Written(dir, name, data, k) ==
    [p \in DOMAIN outTree \cup {<<dir, name>>} |->
        IF p = <<dir, name>> THEN SubSeq(data, 1, k) ELSE outTree[p]]

\* one iteration of the loop over html_files (lines 214-220)
VisitFile ==
    /\ pc = "files"
    /\ files # <<>>
    /\ total' = total + 1
    /\ \E io \in IoOutcomes :
        LET r == ProcessFile(Head(files), repo[curDir].files[Head(files)])
        IN  \/ /\ io = "read_error"
               /\ fault' = io
               /\ pc' = AfterFault
               /\ UNCHANGED <<outTree, converted, stdout, writes, files>>
            \/ /\ io = "ok"
               /\ ~r.ok
               /\ fault' = fault
               /\ stdout' = Append(stdout, [mark |-> "no article found",
                                            dir |-> curDir, file |-> Head(files)])
               /\ files' = Tail(files)
               /\ pc' = IF Tail(files) = <<>> THEN "dirs" ELSE "files"
               /\ UNCHANGED <<outTree, converted, writes>>
            \/ /\ io = "open_error"
               /\ r.ok
               /\ fault' = io
               /\ pc' = AfterFault
               /\ UNCHANGED <<outTree, converted, stdout, writes, files>>
            \/ /\ io = "write_error"
               /\ r.ok
               /\ \E k \in 0..(Len(r.data) - 1) :
                    outTree' = Written(curDir, r.name, r.data, k)
               /\ fault' = io
               /\ pc' = AfterFault
               /\ UNCHANGED <<converted, stdout, writes, files>>
            \/ /\ io = "ok"
               /\ r.ok
               /\ fault' = fault
               /\ outTree' = Written(curDir, r.name, r.data, Len(r.data))
               /\ writes' = Append(writes, [path |-> <<curDir, r.name>>,
                                            data |-> r.data])
               /\ converted' = converted + 1
               /\ stdout' = Append(stdout, [mark |-> "converted",
                                            dir |-> curDir, file |-> Head(files)])
               /\ files' = Tail(files)
               /\ pc' = IF Tail(files) = <<>> THEN "dirs" ELSE "files"
    /\ UNCHANGED <<arg, parts, ret, repo, outDirs, queue, curDir, single, run,
                   firstOut>>

\* the summary after the loop (lines 222-223)
Summary ==
    /\ pc = "dirs"
    /\ queue = <<>>
    /\ stdout' = stdout \o <<[mark |-> "Done", converted |-> converted,
                              total |-> total],
                             [mark |-> "Output"]>>
    /\ pc' = "done"
    /\ UNCHANGED <<arg, parts, ret, repo, outTree, outDirs, queue, files, curDir,
                   total, converted, writes, fault, single, run, firstOut>>

\* "if md:" (line 187): None and the empty text are both false
Truthy(md) == md.found /\ md.body # <<>>

\* main() with --single <path> (lines 182-191), between batch runs
MainSingle ==
    /\ pc \in {"start", "done"}
    /\ \E d \in {e \in DOMAIN repo : repo[e].isdir} :
       \E f \in DOMAIN repo[d].files :
          LET md == ConvertHtmlToMd(repo[d].files[f])
          IN  single' = IF Truthy(md)
                        THEN [path |-> <<d, f>>, out |-> md.body, err |-> <<>>]
                        ELSE [path |-> <<d, f>>, out |-> <<>>,
                              err |-> <<"No article content found.">>]
    /\ UNCHANGED <<pc, arg, parts, ret, repo, outTree, outDirs, queue, files,
                   curDir, total, converted, stdout, writes, fault, run, firstOut>>

\* the batch run
Next == MainStart \/ SkipEntry \/ EnterDir \/ VisitFile \/ Summary

\* the batch run and, between runs, the --single mode
NextModes == Next \/ MainSingle

(***************************************************************************)
(* The input trees                                                         *)
(***************************************************************************)
D2003 == <<"2", "0", "0", "3", "-", "M", "a", "y">>
D2004 == <<"2", "0", "0", "4", "-", "J", "a", "n">>
D2005 == <<"2", "0", "0", "5", "-", "x">>
NOTES == <<"n", "o", "t", "e", "s">>
README == <<"r", "e", "a", "d", "m", "e">>
F1 == <<"1">> \o HtmlExt
F2 == <<"2">> \o HtmlExt
F10 == <<"1", "0">> \o HtmlExt
INDEX == <<"i", "n", "d", "e", "x">> \o HtmlExt

ArticleText == <<BEGIN_ARTICLE, NL, PRE_OPEN, "t", PRE_CLOSE, NL, END_ARTICLE>>

\* file contents of the batch studies: an article, an article with an empty
\* body, one with only boilerplate, one with text before <PRE>, no markers
BatchContents ==
    { ArticleText,
      <<BEGIN_ARTICLE, PRE_OPEN, PRE_CLOSE, END_ARTICLE>>,
      <<BEGIN_ARTICLE, PRE_OPEN, LE_PLAIN, NL, SP, AMP, "#245;", AMP, "nbsp;",
        PRE_CLOSE, END_ARTICLE>>,
      <<BEGIN_ARTICLE, "t", PRE_OPEN, "t", PRE_CLOSE, END_ARTICLE>>,
      <<PRE_OPEN, "t", PRE_CLOSE>> }

\* a slot is <<>> (no such file) or <<content>>
Slots(C) == {<<>>} \cup {<<c>> : c \in C}

\* the tree with the three optional newsletters s1, s2 (2003-May) and s3
\* (2004-Jan) and the entries the loop must pass over
Tree(s1, s2, s3) ==
    [e \in {D2003, D2004, D2005, NOTES, README} |->
        CASE e = D2003 ->
               [isdir |-> TRUE,
                files |-> [n \in (IF s1 = <<>> THEN {} ELSE {F1})
                                 \cup (IF s2 = <<>> THEN {} ELSE {F2})
                                 \cup {INDEX} |->
                             IF n = F1 THEN s1[1]
                             ELSE IF n = F2 THEN s2[1] ELSE ArticleText]]
          [] e = D2004 ->
               [isdir |-> TRUE,
                files |-> [n \in (IF s3 = <<>> THEN {} ELSE {F10}) |-> s3[1]]]
          [] e = D2005 ->
               [isdir |-> TRUE, files |-> [n \in {INDEX} |-> ArticleText]]
          [] e = NOTES ->
               [isdir |-> TRUE, files |-> [n \in {F1} |-> ArticleText]]
          [] e = README ->
               [isdir |-> FALSE, files |-> <<>>]]

\* an output file an earlier use of the script may have left
StaleOut == [p \in {<<D2003, MdName(F1)>>} |-> <<"old", NL>>]

NoRet == [found |-> FALSE, body |-> <<>>]

InitBatchWith(trees, outs) ==
    /\ repo \in trees
    /\ outTree \in outs
    /\ outDirs = {p[1] : p \in DOMAIN outTree}
    /\ pc = "start"
    /\ arg = <<>> /\ parts = <<>> /\ ret = NoRet
    /\ queue = <<>> /\ files = <<>> /\ curDir = <<>>
    /\ total = 0 /\ converted = 0
    /\ stdout = <<>> /\ writes = <<>> /\ fault = "none"
    /\ single = NoSingle
    /\ run = 0
    /\ firstOut = <<>>

\* the batch studies: every tree of up to three newsletters
Init ==
    InitBatchWith({Tree(s1, s2, s3) : s1 \in Slots(BatchContents),
                   s2 \in Slots(BatchContents), s3 \in Slots(BatchContents)},
                  {<<>>, StaleOut})

Spec == Init /\ [][Next]_vars

\* the one-file studies: one newsletter, 2003-May/1.html, of any content
\* within the bounds: a page of markers, or an article of any body
MarkerTokens == {BEGIN_ARTICLE, END_ARTICLE, PRE_OPEN, PRE_CLOSE, SP, "t"}
BodyTokens == {SP, NL, "t", AMP, "nbsp;", LE_PLAIN}

Article(body) == <<BEGIN_ARTICLE, PRE_OPEN>> \o body \o <<PRE_CLOSE, END_ARTICLE>>

Pages ==
    SeqsUpTo(MarkerTokens, MaxPageLen)
        \cup {Article(b) : b \in SeqsUpTo(BodyTokens, MaxBodyLen)}

TreeOne(c) ==
    [e \in {D2003, README} |->
        IF e = D2003 THEN [isdir |-> TRUE, files |-> [n \in {F1} |-> c]]
        ELSE [isdir |-> FALSE, files |-> <<>>]]

InitOne == InitBatchWith({TreeOne(c) : c \in Pages}, {<<>>, StaleOut})

SpecOne == InitOne /\ [][Next]_vars

SpecModes == InitOne /\ [][NextModes]_vars

(***************************************************************************)
(* The studies of the functions by themselves                              *)
(***************************************************************************)
IdleBatch ==
    /\ repo = <<>> /\ outTree = <<>> /\ outDirs = {}
    /\ queue = <<>> /\ files = <<>> /\ curDir = <<>>
    /\ total = 0 /\ converted = 0
    /\ stdout = <<>> /\ writes = <<>> /\ fault = "none"
    /\ single = NoSingle
    /\ run = 0
    /\ firstOut = <<>>

batchVars == <<repo, outTree, outDirs, queue, files, curDir, total, converted,
               stdout, writes, fault, single, run, firstOut>>

\* convert_links on one anchor between two pieces of text
UrlTokens == {"http://", "x.com", "/", "mailman/listinfo"}
TextTokens == {"http://", "https://", "x.com", "/", SP}
Pads == {<<>>, <<"t">>}

Anchor(url, text) == <<A_OPEN, DQ>> \o url \o <<DQ, GT>> \o text \o <<A_CLOSE>>

InitLinks ==
    /\ parts \in [pre : Pads, url : SeqsUpTo(UrlTokens, MaxUrlLen),
                  text : SeqsUpTo(TextTokens, MaxTextLen), post : Pads]
    /\ arg = parts.pre \o Anchor(parts.url, parts.text) \o parts.post
    /\ pc = "call"
    /\ ret = NoRet
    /\ IdleBatch

CallConvertLinks ==
    /\ pc = "call"
    /\ ret' = [found |-> TRUE, body |-> ConvertLinks(arg)]
    /\ pc' = "returned"
    /\ UNCHANGED <<arg, parts, batchVars>>

SpecLinks == InitLinks /\ [][CallConvertLinks]_vars

\* strip_header on a text of a few lines
HeaderTokens == {NL, SP, LE_ACUTE, LE_PLAIN, FEL_PLAIN, "mailto:", "t"}

InitHeader ==
    /\ arg \in SeqsUpTo(HeaderTokens, MaxHeaderLen)
    /\ parts = <<>>
    /\ pc = "call"
    /\ ret = NoRet
    /\ IdleBatch

CallStripHeader ==
    /\ pc = "call"
    /\ ret' = [found |-> TRUE, body |-> StripHeader(arg)]
    /\ pc' = "returned"
    /\ UNCHANGED <<arg, parts, batchVars>>

SpecHeader == InitHeader /\ [][CallStripHeader]_vars

\* convert_html_to_md on a page of markers, and on an article of entities
EntityTokens == {AMP, "amp;", "otilde;", "#245;", "#150;", "#245", "#233;",
                 "U+00F5", "U+00DB", "Ucirc;", "#213;", "#251;", "#219;", "t"}

InitConvert ==
    /\ \/ arg \in SeqsUpTo(MarkerTokens, MaxHtmlLen)
       \/ \E b \in SeqsUpTo(EntityTokens, MaxBodyLen) : arg = Article(b)
    /\ parts = <<>>
    /\ pc = "call"
    /\ ret = NoRet
    /\ IdleBatch

CallConvertHtmlToMd ==
    /\ pc = "call"
    /\ ret' = ConvertHtmlToMd(arg)
    /\ pc' = "returned"
    /\ UNCHANGED <<arg, parts, batchVars>>

SpecConvert == InitConvert /\ [][CallConvertHtmlToMd]_vars

(***************************************************************************)
(* Properties                                                              *)
(***************************************************************************)
Returned == pc = "returned"

\* C3, as stated: the anchor becomes the bare URL when the link text equals
\* the URL, and [text](url) for every link text that differs from it.
C3_AsStated ==
    Returned =>
        ret.body = parts.pre
                   \o (IF parts.text = parts.url THEN parts.url
                       ELSE <<"[">> \o parts.text \o <<"](">> \o parts.url \o <<")">>)
                   \o parts.post

\* what is left of a text once every "http://" and "https://" is removed
\* and the trailing slashes are dropped
C3_Bare(s) ==
    LET kept == {k \in 1..Len(s) : s[k] \notin {"http://", "https://"}}
        last == {k \in kept : s[k] # "/"}
        n    == IF last = {} THEN 0 ELSE CHOOSE k \in last : \A j \in last : j <= k
        F[k \in 0..Len(s)] ==
            IF k = 0 THEN <<>>
            ELSE IF k \in kept /\ k <= n THEN Append(F[k - 1], s[k]) ELSE F[k - 1]
    IN  F[Len(s)]

\* a text without the whitespace around it
C3_Trim(s) ==
    LET ink == {k \in 1..Len(s) : s[k] \notin {SP, NL, "U+00A0"}}
    IN  IF ink = {} THEN <<>>
        ELSE SubSeq(s, CHOOSE k \in ink : \A j \in ink : k <= j,
                       CHOOSE k \in ink : \A j \in ink : j <= k)

\* C3, amended: the anchor becomes the bare URL when the trimmed link text
\* equals the URL up to "http://", "https://" and trailing slashes;
\* otherwise the trimmed link text alone when the URL contains
\* "mailman/listinfo"; otherwise [trimmed text](url).
C3_LinkForms ==
    Returned =>
        LET t == C3_Trim(parts.text)
            u == parts.url
        IN  ret.body = parts.pre
                       \o (IF C3_Bare(t) = C3_Bare(u) THEN u
                           ELSE IF \E k \in 1..Len(u) : u[k] = "mailman/listinfo" THEN t
                           ELSE <<"[">> \o t \o <<"](">> \o u \o <<")">>)
                       \o parts.post

\* a link text with whitespace around it that differs from the URL, between
\* two pieces of text, became a Markdown link
C3_Witness ==
    /\ Returned
    /\ parts.pre = <<"t">> /\ parts.post = <<"t">>
    /\ parts.url = <<"http://", "x.com">>
    /\ parts.text = <<SP, "/", SP>>
    /\ ret.body = <<"t", "[", "/", "](", "http://", "x.com", ")", "t">>

C4_Lines == Split(arg)
C4_IsLe(l) == LET t == C3_Trim(l) IN t # <<>> /\ t[1] \in {LE_ACUTE, LE_PLAIN}
C4_IsFel(l) == LET t == C3_Trim(l) IN t # <<>> /\ t[1] \in {FEL_ACUTE, FEL_PLAIN}
C4_Les == {k \in 1..Len(C4_Lines) : C4_IsLe(C4_Lines[k])}
C4_Fels == {k \in 1..Len(C4_Lines) : C4_IsFel(C4_Lines[k])}
C4_Max(S) == CHOOSE k \in S : \A j \in S : j <= k
C4_Min(S) == CHOOSE k \in S : \A j \in S : k <= j

\* a line the header may run on with: blank, "subject=", "mailto:", "fel:"
C4_RunsOn(l) ==
    LET t == C3_Trim(l)
    IN  t = <<>> \/ t[1] \in {"subject=", "mailto:", FEL_ACUTE, FEL_PLAIN}

\* the text from the first line after line a that the header does not run
\* on with
C4_After(a) ==
    LET rest == {k \in (a + 1)..Len(C4_Lines) : ~C4_RunsOn(C4_Lines[k])}
    IN  IF rest = {} THEN <<>>
        ELSE Join(SubSeq(C4_Lines, C4_Min(rest), Len(C4_Lines)))

\* C4, as stated: of a text with a subscribe ("fel:") or unsubscribe ("le:")
\* line, every line up through the last such line is removed, no such line
\* remains, and the lines after it are kept in order.
C4_AsStated ==
    (Returned /\ C4_Les \cup C4_Fels # {}) =>
        /\ ret.body = C4_After(C4_Max(C4_Les \cup C4_Fels))
        /\ \A l \in {Split(ret.body)[k] : k \in 1..Len(Split(ret.body))} :
              ~C4_IsLe(l) /\ ~C4_IsFel(l)

\* C4, amended: every line up through the last "le:" line -- or, in a text
\* without a "le:" line, up through the first "fel:" line -- is removed,
\* with the blank, "subject=", "mailto:" and "fel:" lines that directly
\* follow it; the lines after those are kept in order.
C4_HeaderRemoved ==
    (Returned /\ C4_Les \cup C4_Fels # {}) =>
        ret.body = C4_After(IF C4_Les # {} THEN C4_Max(C4_Les) ELSE C4_Min(C4_Fels))

\* a "fel:" line below the article's first line stayed in the output
C4_Witness ==
    /\ Returned
    /\ arg = <<LE_PLAIN, NL, "t", NL, FEL_PLAIN>>
    /\ ret.body = <<"t", NL, FEL_PLAIN>>

\* the <PRE>...</PRE> blocks of s between a beginarticle marker and a later
\* endarticle marker, whatever else stands between them: <<j, k>>
At(s, t) == {k \in 1..Len(s) : s[k] = t}

WrappedPre(s) ==
    {jk \in At(s, PRE_OPEN) \X At(s, PRE_CLOSE) :
        /\ jk[1] < jk[2]
        /\ \E i \in At(s, BEGIN_ARTICLE) : i < jk[1]
        /\ \E l \in At(s, END_ARTICLE) : jk[2] < l}

\* only whitespace stands at a..b
Blank(s, a, b) == \A k \in a..b : s[k] \in {SP, NL, "U+00A0"}

\* the blocks with only whitespace between the markers and the tags:
\* <<i, j, k>>, the begin marker, <PRE> and </PRE>
AdjacentPre(s) ==
    {ijk \in At(s, BEGIN_ARTICLE) \X At(s, PRE_OPEN) \X At(s, PRE_CLOSE) :
        /\ ijk[1] < ijk[2] /\ ijk[2] < ijk[3]
        /\ Blank(s, ijk[1] + 1, ijk[2] - 1)
        /\ \E l \in At(s, END_ARTICLE) : ijk[3] < l /\ Blank(s, ijk[3] + 1, l - 1)}

\* entity repair, link conversion, header stripping and trimming, in the
\* order of lines 130-155
Cleaned(text) ==
    Strip(StripHeader(FixIso2Chars(HtmlUnescape(FixNumericEntities(
        ConvertLinks(FixDoubleEncoded(text)))))))

\* C5, as stated: of an input with a <PRE>text</PRE> block between the
\* beginarticle and the endarticle marker, convert_html_to_md returns a
\* body (not None), the cleaned text of the block.
C5_AsStated ==
    (Returned /\ WrappedPre(arg) # {}) =>
        /\ ret.found
        /\ \E jk \in WrappedPre(arg) :
              ret.body = Cleaned(SubSeq(arg, jk[1] + 1, jk[2] - 1))

\* C5, amended: when nothing but whitespace stands between the beginarticle
\* marker and <PRE> and between </PRE> and the endarticle marker,
\* convert_html_to_md returns a body (not None): the cleaned text from the
\* <PRE> after the first such begin marker to the first such </PRE>.
C5_AdjacentBlock ==
    (Returned /\ AdjacentPre(arg) # {}) =>
        LET first == CHOOSE m \in AdjacentPre(arg) :
                        \A n \in AdjacentPre(arg) :
                            m[1] < n[1] \/ (m[1] = n[1] /\ m[3] <= n[3])
        IN  /\ ret.found
            /\ ret.body = Cleaned(SubSeq(arg, first[2] + 1, first[3] - 1))

\* whitespace stood between the begin marker and <PRE>, and the text of the
\* block came back trimmed
C5_Witness ==
    /\ Returned
    /\ arg = <<BEGIN_ARTICLE, SP, PRE_OPEN, "t", PRE_CLOSE, END_ARTICLE>>
    /\ ret = [found |-> TRUE, body |-> <<"t">>]

\* the characters the numeric entities of C9 stand for
C9_Decoded ==
    [t \in {"#150;", "#245;", "#213;", "#251;", "#219;"} |->
        CASE t = "#150;" -> "U+2013" [] t = "#245;" -> "U+0151"
          [] t = "#213;" -> "U+0150" [] t = "#251;" -> "U+0171"
          [] t = "#219;" -> "U+0170"]

\* the article body b is plain text and numeric entities of C9 only
C9_Plain(b) ==
    /\ \A k \in 1..Len(b) : b[k] \notin {"U+00F5", "U+00D5", "U+00FB", "U+00DB"}
    /\ \A k \in 1..(Len(b) - 1) :
          b[k] = AMP => b[k + 1] \in DOMAIN C9_Decoded \cup {AMP, "t"}

\* b with each numeric entity of C9 replaced by its character
C9_Expected(b) ==
    LET F[k \in 0..Len(b)] ==
            IF k = 0 THEN <<>>
            ELSE IF k > 1 /\ b[k - 1] = AMP /\ b[k] \in DOMAIN C9_Decoded
                 THEN Append(SubSeq(F[k - 1], 1, Len(F[k - 1]) - 1), C9_Decoded[b[k]])
                 ELSE Append(F[k - 1], b[k])
    IN  F[Len(b)]

C9_Body == SubSeq(arg, 3, Len(arg) - 2)

\* C9: a returned body holds none of the letters o/O with tilde and u/U
\* with circumflex, however the input encoded them; and in an article of
\* plain text and the numeric entities &#150; &#245; &#213; &#251; &#219;
\* each entity is decoded to the en dash and the letters o/O/u/U with
\* double acute.
C9_EntitiesDecoded ==
    (Returned /\ ret.found) =>
        /\ \A k \in 1..Len(ret.body) :
              ret.body[k] \notin {"U+00F5", "U+00D5", "U+00FB", "U+00DB"}
        /\ (arg = Article(C9_Body) /\ C9_Plain(C9_Body)
              /\ \A k \in 1..Len(C9_Body) : C9_Body[k] \in EntityTokens)
             => ret.body = C9_Expected(C9_Body)

\* a numeric entity and the literal letter came back as the letter with
\* double acute
C9_Witness ==
    /\ Returned
    /\ arg = Article(<<AMP, "#219;", "U+00DB">>)
    /\ ret.body = <<"U+0170", "U+0170">>

\* the lines of stdout that report a file
FileLines == {k \in 1..Len(stdout) : stdout[k].mark \in {"converted", "no article found"}}
ConvertedLines == {k \in FileLines : stdout[k].mark = "converted"}
SkippedLines == {k \in FileLines : stdout[k].mark = "no article found"}

\* the files '[0-9]*.html' of the directories 'YYYY-<word>': <<dir, file>>
MatchingFiles ==
    {df \in UNION {{<<d, f>> : f \in DOMAIN repo[d].files} : d \in DOMAIN repo} :
        /\ repo[df[1]].isdir
        /\ Len(df[1]) >= 6
        /\ \A k \in 1..4 : df[1][k] \in {"0", "1", "2", "3", "4", "5", "9"}
        /\ df[1][5] = "-" /\ df[1][6] \notin {"-", "."}
        /\ Len(df[2]) >= 6
        /\ df[2][1] \in {"0", "1", "2", "3", "4", "5", "9"}
        /\ SubSeq(df[2], Len(df[2]) - 4, Len(df[2])) = <<".", "h", "t", "m", "l">>}

\* the files the run has still to visit
Unvisited ==
    {df \in MatchingFiles :
        \/ df[1] = curDir /\ \E k \in 1..Len(files) : files[k] = df[2]
        \/ \E k \in 1..Len(queue) : queue[k] = df[1]}

\* C1: visiting a file whose content has no beginarticle ... endarticle pair
\* around a <PRE>...</PRE> block, and that could be read, convert_html_to_md
\* returns None, the file is reported as "no article found" and not counted
\* as converted, the output tree stays as it was, and the run goes on with
\* the next file.
C1_NoArticleSkipped ==
    [][(/\ pc = "files" /\ files # <<>>
        /\ WrappedPre(repo[curDir].files[Head(files)]) = {}
        /\ fault' = "none")
       => (/\ ~ConvertHtmlToMd(repo[curDir].files[Head(files)]).found
           /\ outTree' = outTree /\ outDirs' = outDirs /\ writes' = writes
           /\ converted' = converted
           /\ stdout' = Append(stdout, [mark |-> "no article found",
                                        dir |-> curDir, file |-> Head(files)])
           /\ files' = Tail(files)
           /\ pc' \in {"files", "dirs"})]_vars

\* a page with a begin marker and a PRE block but no end marker was skipped
\* and the output file of an earlier use is as it was
C1_Witness ==
    /\ pc = "done" /\ run = 1
    /\ repo[D2003].files[F1] = <<BEGIN_ARTICLE, PRE_OPEN, "t", PRE_CLOSE>>
    /\ stdout[1] = [mark |-> "no article found", dir |-> D2003, file |-> F1]
    /\ outTree = StaleOut

\* C2: at every point of the loop and at the summary, total is the number
\* of files visited so far, each reported by exactly one line; converted is
\* the number of output files written; 0 <= converted <= total; total -
\* converted is the number of "no article found" lines; and the summary
\* gives these counts once every matching file of every matching directory
\* was visited.
C2_Counters ==
    pc \in {"dirs", "files", "done"} =>
        /\ total = Cardinality(FileLines)
        /\ {<<stdout[k].dir, stdout[k].file>> : k \in FileLines} = MatchingFiles \ Unvisited
        /\ Cardinality(MatchingFiles \ Unvisited) = total
        /\ converted = Cardinality(ConvertedLines)
        /\ converted = Len(writes)
        /\ Cardinality({writes[k].path : k \in 1..Len(writes)}) = converted
        /\ 0 <= converted /\ converted <= total
        /\ total - converted = Cardinality(SkippedLines)
        /\ pc = "done" =>
              /\ Unvisited = {}
              /\ total = Cardinality(MatchingFiles)
              /\ Len(stdout) = total + 2
              /\ stdout[total + 1] = [mark |-> "Done", converted |-> converted,
                                      total |-> total]

\* a run over three newsletters, two of them converted, printed its summary
C2_Witness ==
    /\ pc = "done"
    /\ total = 3 /\ converted = 2
    /\ stdout[4] = [mark |-> "Done", converted |-> 2, total |-> 3]

\* C6: a later run over the same input tree leaves the output tree, the set
\* of files and the content of each, as the first run left it, and never
\* takes a directory of the output tree as input.
C6_SecondRunSame ==
    /\ (run >= 2 /\ fault = "none") => outTree = firstOut
    /\ curDir # MARKDOWN
    /\ \A k \in FileLines : stdout[k].dir # MARKDOWN

\* the second run ended over two output files, one of them rewritten
C6_Witness ==
    /\ pc = "done" /\ run = 2
    /\ converted = 2
    /\ DOMAIN outTree = {<<D2003, <<"1", ".", "m", "d">>>>, <<D2004, <<"1", "0", ".", "m", "d">>>>}
    /\ outTree # StaleOut
    /\ outTree = firstOut

\* C7: for each visited N.html of a directory D in which an article is
\* found, the run wrote exactly one file, D/N.md, whose content is the body
\* and one newline; the body starts and ends with no whitespace; and the
\* run wrote no other file.
C7_OneOutput ==
    /\ Len(writes) = Cardinality(ConvertedLines)
    /\ \A k \in FileLines :
          LET d    == stdout[k].dir
              f    == stdout[k].file
              md   == ConvertHtmlToMd(repo[d].files[f])
              path == <<d, SubSeq(f, 1, Len(f) - 5) \o <<".", "m", "d">>>>
              W    == {w \in 1..Len(writes) : writes[w].path = path}
          IN  /\ md.found <=> k \in ConvertedLines
              /\ md.found =>
                    /\ Cardinality(W) = 1
                    /\ \A w \in W : writes[w].data = md.body \o <<NL>>
                    /\ outTree[path] = md.body \o <<NL>>
                    /\ md.body # <<>> =>
                          /\ md.body[1] \notin {SP, NL, "U+00A0"}
                          /\ md.body[Len(md.body)] \notin {SP, NL, "U+00A0"}

\* the article with boilerplate and whitespace around its text was written
\* as 2003-May/1.md, the text and one newline
C7_Witness ==
    /\ pc = "done"
    /\ D2003 \in DOMAIN repo
    /\ F1 \in DOMAIN repo[D2003].files
    /\ stdout # <<>>
    /\ <<D2003, <<"1", ".", "m", "d">>>> \in DOMAIN outTree
    /\ repo[D2003].files[F1] =
          <<BEGIN_ARTICLE, PRE_OPEN, LE_PLAIN, NL, SP, AMP, "#245;", AMP, "nbsp;",
            PRE_CLOSE, END_ARTICLE>>
    /\ stdout[1] = [mark |-> "converted", dir |-> D2003, file |-> F1]
    /\ outTree[<<D2003, <<"1", ".", "m", "d">>>>] = <<"U+0151", NL>>

\* C8: once reading an input file, writing an output file or making an
\* output directory failed, the run is over: nothing more is processed,
\* the file is not reported (neither as a skip nor as converted), no summary
\* is printed, and the files written earlier in the run are as written.
C8_FaultEndsRun ==
    fault # "none" =>
        /\ pc = "crashed"
        /\ ~ENABLED Next
        /\ \A k \in 1..Len(stdout) : stdout[k].mark \notin {"Done", "Output"}
        /\ fault # "mkdir_error" =>
              /\ files # <<>>
              /\ \A k \in FileLines : <<stdout[k].dir, stdout[k].file>> # <<curDir, Head(files)>>
              /\ Cardinality(FileLines) = total - 1
        /\ \A w \in 1..Len(writes) : outTree[writes[w].path] = writes[w].data

\* a write failed after an earlier file of the run had been written
C8_Witness ==
    /\ fault = "write_error"
    /\ pc = "crashed"
    /\ Len(writes) = 1
    /\ total = 2

\* C10: for a file the batch run visited, --single prints the error message
\* exactly when the batch run reported "no article found", and prints the
\* Markdown the batch run wrote (before the newline) exactly when the batch
\* run converted the file.
C10_ModesAgree ==
    \A k \in FileLines :
        single.path = <<stdout[k].dir, stdout[k].file>> =>
            /\ single.err # <<>> <=> k \in SkippedLines
            /\ k \in ConvertedLines =>
                  \E w \in 1..Len(writes) :
                      /\ writes[w].path[1] = stdout[k].dir
                      /\ writes[w].data = single.out \o <<NL>>

=============================================================================
